---- MODULE Spec2Model ----
(***************************************************************************)
(* Hash group-by of polars-core (frame/groupby/hashing.rs).                *)
(*                                                                         *)
(* One behaviour of the model is one call of one of the three grouping     *)
(* entry points: groupby (sequential), groupby_threaded_num2 (one hash     *)
(* table per worker, keys partitioned on their low bits) and               *)
(* groupby_threaded_multiple_keys_flat (the same over row hashes of a      *)
(* DataFrame of key columns).  Workers and scatter writers of the rayon    *)
(* pool are interleaved one loop iteration at a time.                      *)
(*                                                                         *)
(* Row indices and table offsets keep the 0-based values of the code;      *)
(* TLA+ sequences are 1-based, so element i of a Vec v is v[i + 1].        *)
(***************************************************************************)
EXTENDS Integers, Sequences, FiniteSets, TLC

\* Bounds of the model.
MaxRows == 3      \* rows of an input
MaxKey == 2       \* single keys are 0..MaxKey
MaxSeed == 2      \* random states of the row hasher are 0..MaxSeed
MaxParts == 4     \* n_partitions is 0..MaxParts

VARIABLES
    entry,          \* the entry point that was called
    keys,           \* its key argument: chunks of keys, or the columns of the DataFrame
    random_state,   \* the random state the row hasher draws
    n_partitions,   \* its n_partitions argument
    sorted,         \* its sorted argument
    pc,             \* where the call is
    failure,        \* the collaborator that reported an error, or "none"
    dfs,            \* split_df's chunks of the key DataFrame
    hashes,         \* the row hashes, one chunk per DataFrame of dfs
    workers,        \* thread_no -> the state of that worker's closure
    vecs,           \* the workers' (first_vals, all_vals), collected in thread order
    offsets,        \* finish_group_order_vecs: the slot each worker's range starts at
    items,          \* finish_group_order_vecs: the pre-sized scatter array
    writes,         \* how many times each slot of items was written
    writers,        \* per scatter writer, the number of items it has written
    result,         \* the GroupsIdx returned, <<>> until then
    resorted        \* the returned groups sorted once more, <<>> until then

vars == <<entry, keys, random_state, n_partitions, sorted, pc, failure, dfs, hashes,
          workers, vecs, offsets, items, writes, writers, result, resorted>>

----------------------------------------------------------------------------
\* Sequences

Range(s) == {s[i] : i \in DOMAIN s}

SeqsUpTo(S, n) == UNION {[1..k -> S] : k \in 0..n}

RECURSIVE Flatten(_)
Flatten(ss) == IF ss = <<>> THEN <<>> ELSE Head(ss) \o Flatten(Tail(ss))

RECURSIVE SumLens(_)
SumLens(ss) == IF ss = <<>> THEN 0 ELSE Len(Head(ss)) + SumLens(Tail(ss))

Min(a, b) == IF a < b THEN a ELSE b

\* The orders in which a hash table may hand out the set S of its values.
IterOrders(S) == {s \in [1..Cardinality(S) -> S] : Range(s) = S}

----------------------------------------------------------------------------
\* u64 helpers

RECURSIVE BitAnd(_, _)
BitAnd(a, b) ==
    IF a = 0 \/ b = 0 THEN 0
    ELSE (a % 2) * (b % 2) + 2 * BitAnd(a \div 2, b \div 2)

is_power_of_two(n) == n # 0 /\ BitAnd(n, n - 1) = 0

\* AsU64 of an unsigned numeric key.
as_u64(k) == k

\* hashing::this_partition: the low bits of h name the worker.
this_partition(h, thread_no, n) == BitAnd(h, n - 1) = thread_no

----------------------------------------------------------------------------
\* GroupsIdx (groupby/proxy.rs)

GroupsIdxNew(first, all, is_sorted) == [first |-> first, all |-> all, sorted |-> is_sorted]

\* FromIterator<(IdxSize, Vec<IdxSize>)>: unzip, not flagged sorted.
GroupsIdxFromIter(its) ==
    [first |-> [i \in 1..Len(its) |-> its[i][1]],
     all |-> [i \in 1..Len(its) |-> its[i][2]],
     sorted |-> FALSE]

\* From<Vec<(Vec<IdxSize>, Vec<Vec<IdxSize>>)>>: the workers' lists, flattened in order.
GroupsIdxFrom(vs) ==
    [first |-> Flatten([i \in 1..Len(vs) |-> vs[i][1]]),
     all |-> Flatten([i \in 1..Len(vs) |-> vs[i][2]]),
     sorted |-> FALSE]

\* Mutant of sort_unstable_by_key: the key order is reversed.
sort_descending(its) ==
    LET n == Len(its)
        perms == {p \in [1..n -> 1..n] : Range(p) = 1..n}
    IN {[i \in 1..n |-> its[p[i]]] : p \in
            {q \in perms : \A i \in 1..n, j \in 1..n :
                                i < j => its[q[i]][1] >= its[q[j]][1]}}

\* slice::sort_unstable_by_key(|g| g.0): every arrangement of the items in
\* non-decreasing key order (items with equal keys may come out in any order).
sort_unstable_by_key(its) ==
    LET n == Len(its)
        perms == {p \in [1..n -> 1..n] : Range(p) = 1..n}
    IN {[i \in 1..n |-> its[p[i]]] : p \in
            {q \in perms : \A i \in 1..n, j \in 1..n :
                                i < j => its[q[i]][1] <= its[q[j]][1]}}

----------------------------------------------------------------------------
\* groupby (sequential)

\* Mutant of groupby_entry: an occupied entry is overwritten by a fresh group.
groupby_entry_overwrite(hash_tbl, k, idx) ==
    [x \in DOMAIN hash_tbl \cup {k} |-> IF x = k THEN <<idx, <<idx>>>> ELSE hash_tbl[x]]

\* One round of the for_each closure: the entry for k is Vacant or Occupied.
\* The table maps a key to its (first index, member list).
groupby_entry(hash_tbl, k, idx) ==
    IF k \in DOMAIN hash_tbl
    THEN [hash_tbl EXCEPT ![k] = <<@[1], Append(@[2], idx)>>]
    ELSE [x \in DOMAIN hash_tbl \cup {k} |->
              IF x = k THEN <<idx, <<idx>>>> ELSE hash_tbl[x]]

\* a.for_each(..) from row cnt on.
RECURSIVE groupby_for_each(_, _, _)
groupby_for_each(a, cnt, hash_tbl) ==
    IF cnt = Len(a) THEN hash_tbl
    ELSE groupby_for_each(a, cnt + 1, groupby_entry(hash_tbl, a[cnt + 1], cnt))

\* The table groupby has built when the iterator is exhausted.
groupby_table(a) == groupby_for_each(a, 0, <<>>)

----------------------------------------------------------------------------
\* Collaborators of groupby_threaded_multiple_keys_flat

\* DataFrame::height
height(df) == IF df = <<>> THEN 0 ELSE Len(df[1])

\* Key columns are structurally compatible when they have one length.
Compatible(df) == \A c \in DOMAIN df : Len(df[c]) = height(df)

\* Series::slice(offset, len), clamped to the column.
slice(col, offset, len) ==
    SubSeq(col, Min(offset, Len(col)) + 1, Min(offset + len, Len(col)))

\* utils::split_df: n row-aligned chunks, the last one taking the remainder.
split_df(df, n) ==
    IF n = 0 THEN <<df>>
    ELSE LET chunk_size == height(df) \div n
         IN [i \in 1..n |->
                [c \in DOMAIN df |->
                    slice(df[c], (i - 1) * chunk_size,
                          IF i = n THEN height(df) - (i - 1) * chunk_size
                          ELSE chunk_size)]]

\* The hash the row hasher gives row r of df under a random state: a
\* function of the row's values alone, with colliding rows for some states.
RECURSIVE row_hash(_, _, _, _)
row_hash(df, r, seed, c) ==
    IF c = 0 THEN 0 ELSE row_hash(df, r, seed, c - 1) * seed + df[c][r]

\* hashing::df_rows_to_hashes_threaded_vertical: one chunk of hashes per DataFrame.
df_rows_to_hashes(ds, seed) ==
    [i \in 1..Len(ds) |-> [r \in 1..height(ds[i]) |-> row_hash(ds[i], r, seed, Len(ds[i]))]]

----------------------------------------------------------------------------
\* Workers

\* The closure's locals before its first row.
NewWorker ==
    [ci |-> 1, cnt |-> 0, offset |-> 0,
     hash_tbl |-> <<>>, first_vals |-> <<>>, all_vals |-> <<>>]

\* Mutant of next_chunk: offset is not advanced by the chunk's length.
RECURSIVE next_chunk_no_offset(_, _)
next_chunk_no_offset(stream, w) ==
    IF w.ci <= Len(stream) /\ w.cnt = Len(stream[w.ci])
    THEN next_chunk_no_offset(stream, [w EXCEPT !.ci = @ + 1, !.cnt = 0])
    ELSE w

\* The end of the inner loop: offset += len, on to the next chunk.
RECURSIVE next_chunk(_, _)
next_chunk(stream, w) ==
    IF w.ci <= Len(stream) /\ w.cnt = Len(stream[w.ci])
    THEN next_chunk(stream, [w EXCEPT !.offset = @ + Len(stream[w.ci]),
                                      !.ci = @ + 1, !.cnt = 0])
    ELSE w

\* The worker has left its outer loop and returns (first_vals, all_vals).
Returned(stream, w) == w.ci > Len(stream)

\* Mutant of vacant: first_vals receives offset_idx in place of row_idx.
vacant_first_offset(w, key, row_idx) ==
    LET offset_idx == Len(w.first_vals)
    IN [w EXCEPT !.all_vals = Append(@, <<row_idx>>),
                 !.first_vals = Append(@, offset_idx),
                 !.hash_tbl = [x \in DOMAIN @ \cup {key} |->
                                  IF x = key THEN offset_idx ELSE @[x]]]

\* The Vacant arm: a new group at the end of the worker's lists.
\* Mutant of vacant: the member list is pushed, the first index is not.
vacant_no_first(w, key, row_idx) ==
    LET offset_idx == Len(w.first_vals)
    IN [w EXCEPT !.all_vals = Append(@, <<row_idx>>),
                 !.hash_tbl = [x \in DOMAIN @ \cup {key} |->
                                  IF x = key THEN offset_idx ELSE @[x]]]

vacant(w, key, row_idx) ==
    LET offset_idx == Len(w.first_vals)
    IN [w EXCEPT !.all_vals = Append(@, <<row_idx>>),
                 !.first_vals = Append(@, row_idx),
                 !.hash_tbl = [x \in DOMAIN @ \cup {key} |->
                                  IF x = key THEN offset_idx ELSE @[x]]]

\* The Occupied arm: all_vals.get_unchecked_mut(offset_idx).push(row_idx).
\* Mutant of occupied: the row index is put in front of the member list.
occupied_push_front(w, offset_idx, row_idx) ==
    [w EXCEPT !.all_vals[offset_idx + 1] = <<row_idx>> \o @]

occupied(w, offset_idx, row_idx) ==
    [w EXCEPT !.all_vals[offset_idx + 1] = Append(@, row_idx)]

\* Mutant of num2_row: the worker does not filter on this_partition.
num2_row_unfiltered(w, thread_no, n, k) ==
    LET row_idx == w.cnt + w.offset
        w1 == [w EXCEPT !.cnt = @ + 1]
    IN IF k \in DOMAIN w.hash_tbl
       THEN occupied(w1, w.hash_tbl[k], row_idx)
       ELSE vacant(w1, k, row_idx)

\* groupby_threaded_num2: the body of keys.for_each for key k.
num2_row(w, thread_no, n, k) ==
    LET row_idx == w.cnt + w.offset
        w1 == [w EXCEPT !.cnt = @ + 1]
    IN IF this_partition(as_u64(k), thread_no, n)
       THEN IF k \in DOMAIN w.hash_tbl
            THEN occupied(w1, w.hash_tbl[k], row_idx)
            ELSE vacant(w1, k, row_idx)
       ELSE w1

\* compare_keys: every column's comparator finds rows idx_a and idx_b equal.
compare_keys(keys_cmp, idx_a, idx_b) ==
    \A c \in DOMAIN keys_cmp : keys_cmp[c][idx_a + 1] = keys_cmp[c][idx_b + 1]

\* IdxHash::new
IdxHash(idx, hash) == [idx |-> idx, hash |-> hash]

\* Mutant of from_hash: equal hashes are taken for equal rows.
from_hash_only(hash_tbl, idx, original_h, keys_cmp) ==
    {idx_hash \in DOMAIN hash_tbl : original_h = idx_hash.hash}

\* The stored keys from_hash's predicate accepts for (idx, original_h).
from_hash(hash_tbl, idx, original_h, keys_cmp) ==
    {idx_hash \in DOMAIN hash_tbl :
        original_h = idx_hash.hash /\ compare_keys(keys_cmp, idx_hash.idx, idx)}

\* populate_multiple_key_hashmap2 with the two closures of
\* groupby_threaded_multiple_keys_flat.
populate_multiple_key_hashmap2(w, idx, original_h, keys_cmp) ==
    LET found == from_hash(w.hash_tbl, idx, original_h, keys_cmp)
    IN IF found = {}
       THEN vacant(w, IdxHash(idx, original_h), idx)
       ELSE occupied(w, w.hash_tbl[CHOOSE e \in found : TRUE], idx)

\* compare_df_rows: every column finds its elements idx_a and idx_b equal.
compare_df_rows(keys_df, idx_a, idx_b) ==
    \A s \in DOMAIN keys_df : keys_df[s][idx_a + 1] = keys_df[s][idx_b + 1]

\* The stored keys the from_hash predicate of populate_multiple_key_hashmap
\* accepts for (idx, original_h).
from_hash_df_rows(hash_tbl, idx, original_h, keys_df) ==
    {idx_hash \in DOMAIN hash_tbl :
        idx_hash.hash = original_h /\ compare_df_rows(keys_df, idx_hash.idx, idx)}

\* Mutant of populate_multiple_key_hashmap: the Occupied branch stores the
\* entry back under the key of the row that found it.
populate_multiple_key_hashmap_rekey(w, idx, original_h, keys_df) ==
    LET found == from_hash_df_rows(w.hash_tbl, idx, original_h, keys_df)
        e == CHOOSE x \in found : TRUE
        k == IdxHash(idx, original_h)
    IN IF found = {}
       THEN vacant(w, k, idx)
       ELSE [occupied(w, w.hash_tbl[e], idx) EXCEPT
                !.hash_tbl = [x \in (DOMAIN @ \ {e}) \cup {k} |->
                                 IF x = k THEN w.hash_tbl[e] ELSE @[x]]]

\* populate_multiple_key_hashmap, handed the vacant producer and the occupied
\* updater of a grouping worker.
populate_multiple_key_hashmap(w, idx, original_h, keys_df) ==
    LET found == from_hash_df_rows(w.hash_tbl, idx, original_h, keys_df)
    IN IF found = {}
       THEN vacant(w, IdxHash(idx, original_h), idx)
       ELSE occupied(w, w.hash_tbl[CHOOSE e \in found : TRUE], idx)

\* Mutant of flat_row: the worker does not filter on this_partition.
flat_row_unfiltered(w, thread_no, n, h, keys_cmp) ==
    populate_multiple_key_hashmap2([w EXCEPT !.cnt = @ + 1], w.cnt + w.offset, h, keys_cmp)

\* groupby_threaded_multiple_keys_flat: the body of the loop over hashes for h.
flat_row(w, thread_no, n, h, keys_cmp) ==
    LET row_idx == w.cnt + w.offset
        w1 == [w EXCEPT !.cnt = @ + 1]
    IN IF this_partition(h, thread_no, n)
       THEN populate_multiple_key_hashmap2(w1, row_idx, h, keys_cmp)
       ELSE w1

----------------------------------------------------------------------------
\* The calls

Threaded == {"groupby_threaded_num2", "groupby_threaded_multiple_keys_flat"}

\* A key iterator handed over as chunks: whole, or cut after its first s keys.
Chunked(ks, s) ==
    IF s = 0 THEN <<ks>> ELSE <<SubSeq(ks, 1, s), SubSeq(ks, s + 1, Len(ks))>>

KeySeqs == SeqsUpTo(0..MaxKey, MaxRows)

\* A Boolean key column, as the row hasher and the comparators see it.
Columns == SeqsUpTo({0, 1}, MaxRows)

\* Key DataFrames of two columns: of one length, or the second one row short.
DataFrames ==
    {df \in Columns \X Columns : Len(df[1]) = Len(df[2])}
        \cup {<<c1, SubSeq(c1, 1, Len(c1) - 1)>> : c1 \in Columns \ {<<>>}}

Init ==
    /\ entry \in {"groupby"} \cup Threaded
    /\ sorted \in BOOLEAN
    /\ \/ /\ entry = "groupby"
          /\ keys \in {<<ks>> : ks \in KeySeqs}
          /\ n_partitions = 1
          /\ random_state = 0
       \/ /\ entry = "groupby_threaded_num2"
          /\ \E ks \in KeySeqs : keys \in {Chunked(ks, s) : s \in 0..Len(ks)}
          /\ n_partitions \in 0..MaxParts
          /\ random_state = 0
       \/ /\ entry = "groupby_threaded_multiple_keys_flat"
          /\ keys \in DataFrames
          /\ n_partitions \in 0..MaxParts
          /\ random_state \in 0..MaxSeed
    /\ pc = "start"
    /\ failure = "none"
    /\ dfs = <<>>
    /\ hashes = <<>>
    /\ workers = <<>>
    /\ vecs = <<>>
    /\ offsets = <<>>
    /\ items = <<>>
    /\ writes = <<>>
    /\ writers = <<>>
    /\ result = <<>>
    /\ resorted = <<>>

\* What the workers scan: the key chunks, or the hash chunks.
Stream == IF entry = "groupby_threaded_num2" THEN keys ELSE hashes

\* POOL.install over (0..n_partitions): one closure per thread_no.
Spawn(stream, n) == [thread_no \in 0..(n - 1) |-> next_chunk(stream, NewWorker)]

\* groupby: the whole call.  The table hands out its values in any order.
Groupby ==
    /\ pc = "start"
    /\ entry = "groupby"
    /\ LET hash_tbl == groupby_table(keys[1])
       IN \E groups \in IterOrders({hash_tbl[k] : k \in DOMAIN hash_tbl}) :
            IF sorted
            THEN \E s \in sort_unstable_by_key(groups) :
                    result' = [GroupsIdxFromIter(s) EXCEPT !.sorted = TRUE]
            ELSE result' = GroupsIdxFromIter(groups)
    /\ pc' = "done"
    /\ UNCHANGED <<resorted, entry, keys, random_state, n_partitions, sorted, failure, dfs,
                   hashes, workers, vecs, offsets, items, writes, writers>>

\* groupby_threaded_num2 up to the start of its workers.
Num2Start ==
    /\ pc = "start"
    /\ entry = "groupby_threaded_num2"
    /\ IF is_power_of_two(n_partitions)
       THEN /\ workers' = Spawn(keys, n_partitions)
            /\ pc' = "accumulate"
       ELSE /\ pc' = "aborted"
            /\ UNCHANGED workers
    /\ UNCHANGED <<resorted, entry, keys, random_state, n_partitions, sorted, failure, dfs,
                   hashes, vecs, offsets, items, writes, writers, result>>

\* Mutant of Num2Worker: the table and the two lists are hoisted out of the
\* closure, so every worker accumulates into those of worker 0.
Num2WorkerShared(thread_no) ==
    /\ pc = "accumulate"
    /\ entry = "groupby_threaded_num2"
    /\ ~Returned(keys, workers[thread_no])
    /\ LET w == workers[thread_no]
           shared == workers[0]
           k == keys[w.ci][w.cnt + 1]
           r == next_chunk(keys, num2_row([w EXCEPT !.hash_tbl = shared.hash_tbl,
                                                   !.first_vals = shared.first_vals,
                                                   !.all_vals = shared.all_vals],
                                          thread_no, n_partitions, k))
           own(x) == [x EXCEPT !.ci = r.ci, !.cnt = r.cnt, !.offset = r.offset]
           tbl(x) == [x EXCEPT !.hash_tbl = r.hash_tbl, !.first_vals = r.first_vals,
                               !.all_vals = r.all_vals]
       IN workers' = [t \in DOMAIN workers |->
                        IF t = 0 /\ t = thread_no THEN r
                        ELSE IF t = 0 THEN tbl(workers[t])
                        ELSE IF t = thread_no THEN own(workers[t])
                        ELSE workers[t]]
    /\ UNCHANGED <<resorted, entry, keys, random_state, n_partitions, sorted, pc, failure, dfs,
                   hashes, vecs, offsets, items, writes, writers, result>>

\* One iteration of keys.for_each in worker thread_no of groupby_threaded_num2.
Num2Worker(thread_no) ==
    /\ pc = "accumulate"
    /\ entry = "groupby_threaded_num2"
    /\ ~Returned(keys, workers[thread_no])
    /\ LET w == workers[thread_no]
           k == keys[w.ci][w.cnt + 1]
       IN workers' = [workers EXCEPT ![thread_no] =
                          next_chunk(keys, num2_row(w, thread_no, n_partitions, k))]
    /\ UNCHANGED <<resorted, entry, keys, random_state, n_partitions, sorted, pc, failure, dfs,
                   hashes, vecs, offsets, items, writes, writers, result>>

\* groupby_threaded_multiple_keys_flat: split_df(..).unwrap().  The splitter
\* may reject key columns that are structurally incompatible.
FlatSplit ==
    /\ pc = "start"
    /\ entry = "groupby_threaded_multiple_keys_flat"
    /\ \/ /\ dfs' = split_df(keys, n_partitions)
          /\ pc' = "split"
          /\ UNCHANGED failure
       \/ /\ ~Compatible(keys)
          /\ failure' = "split_df"
          /\ pc' = "aborted"
          /\ UNCHANGED dfs
    /\ UNCHANGED <<resorted, entry, keys, random_state, n_partitions, sorted, hashes, workers,
                   vecs, offsets, items, writes, writers, result>>

\* groupby_threaded_multiple_keys_flat: df_rows_to_hashes_threaded_vertical(..)?
\* and on to the start of the workers.
FlatHash ==
    /\ pc = "split"
    /\ IF Compatible(keys)
       THEN /\ hashes' = df_rows_to_hashes(dfs, random_state)
            /\ workers' = Spawn(hashes', n_partitions)
            /\ pc' = "accumulate"
            /\ UNCHANGED failure
       ELSE /\ failure' = "df_rows_to_hashes_threaded_vertical"
            /\ pc' = "err"
            /\ UNCHANGED <<hashes, workers>>
    /\ UNCHANGED <<resorted, entry, keys, random_state, n_partitions, sorted, dfs, vecs, offsets,
                   items, writes, writers, result>>

\* hashing::this_partition checks that n is a power of two with an assertion
\* that a build may compile out: where it is compiled in, no call with
\* another n returns.
this_partition_asserts(n) == ~is_power_of_two(n)

\* One iteration of the loop over hashes in worker thread_no of
\* groupby_threaded_multiple_keys_flat.  The code itself puts no condition on
\* n_partitions: the row is filtered by this_partition and populated.  In a
\* build whose this_partition asserts, the first call of any worker aborts, so
\* an abort is possible only while no call has returned.
FlatWorker(thread_no) ==
    /\ pc = "accumulate"
    /\ entry = "groupby_threaded_multiple_keys_flat"
    /\ ~Returned(hashes, workers[thread_no])
    /\ \/ LET w == workers[thread_no]
              h == hashes[w.ci][w.cnt + 1]
          IN /\ workers' = [workers EXCEPT ![thread_no] =
                      next_chunk(hashes, flat_row(w, thread_no, n_partitions, h, keys))]
             /\ UNCHANGED pc
       \/ /\ this_partition_asserts(n_partitions)
          /\ \A t \in DOMAIN workers : workers[t].offset + workers[t].cnt = 0
          /\ pc' = "aborted"
          /\ UNCHANGED workers
    /\ UNCHANGED <<resorted, entry, keys, random_state, n_partitions, sorted, failure, dfs,
                   hashes, vecs, offsets, items, writes, writers, result>>

\* collect() of the workers' results, in thread order.
Collected == [i \in 1..n_partitions |-> <<workers[i - 1].first_vals, workers[i - 1].all_vals>>]

\* Mutant of AllReturned: the join waits for one worker only.
FirstReturned == \E thread_no \in DOMAIN workers : Returned(Stream, workers[thread_no])

\* The join: every worker's closure has returned.
AllReturned == \A thread_no \in DOMAIN workers : Returned(Stream, workers[thread_no])

\* Mutant of scan_offsets: the accumulator is not advanced.
scan_offsets_zero(vs) == [i \in 1..Len(vs) |-> 0]

\* The prefix sums finish_group_order_vecs scans out of the group counts.
scan_offsets(vs) == [i \in 1..Len(vs) |-> SumLens([j \in 1..(i - 1) |-> vs[j][1]])]

\* The join of the workers and finish_group_order_vecs with sorted and one worker.
FinishSingle ==
    /\ pc = "accumulate"
    /\ AllReturned
    /\ sorted
    /\ Len(Collected) = 1
    /\ vecs' = Collected
    /\ result' = GroupsIdxNew(Collected[1][1], Collected[1][2], TRUE)
    /\ pc' = "done"
    /\ UNCHANGED <<resorted, entry, keys, random_state, n_partitions, sorted, failure, dfs,
                   hashes, workers, offsets, items, writes, writers>>

\* Mutant of FinishScatter: an array of capacity zero is refused.
FinishScatterNonEmpty ==
    /\ pc = "accumulate"
    /\ AllReturned
    /\ sorted
    /\ Len(Collected) # 1
    /\ vecs' = Collected
    /\ LET cap == SumLens([i \in 1..Len(Collected) |-> Collected[i][1]])
       IN /\ items' = [i \in 1..cap |-> <<>>]
          /\ writes' = [i \in 1..cap |-> 0]
          /\ pc' = IF cap = 0 THEN "aborted" ELSE "scatter"
    /\ offsets' = scan_offsets(Collected)
    /\ writers' = [i \in 1..Len(Collected) |-> 0]
    /\ UNCHANGED <<resorted, entry, keys, random_state, n_partitions, sorted, failure, dfs,
                   hashes, workers, result>>

\* The join of the workers and finish_group_order_vecs with sorted, up to the
\* start of the scatter writers.
FinishScatter ==
    /\ pc = "accumulate"
    /\ AllReturned
    /\ sorted
    /\ Len(Collected) # 1
    /\ vecs' = Collected
    /\ LET cap == SumLens([i \in 1..Len(Collected) |-> Collected[i][1]])
       IN /\ items' = [i \in 1..cap |-> <<>>]
          /\ writes' = [i \in 1..cap |-> 0]
    /\ offsets' = scan_offsets(Collected)
    /\ writers' = [i \in 1..Len(Collected) |-> 0]
    /\ pc' = "scatter"
    /\ UNCHANGED <<resorted, entry, keys, random_state, n_partitions, sorted, failure, dfs,
                   hashes, workers, result>>

\* One std::ptr::write of scatter writer i, past its assert_eq.
ScatterWrite(i) ==
    /\ pc = "scatter"
    /\ i \in DOMAIN writers
    /\ Len(vecs[i][1]) = Len(vecs[i][2])
    /\ writers[i] < Len(vecs[i][1])
    /\ LET slot == offsets[i] + writers[i] + 1
       IN /\ items' = [items EXCEPT ![slot] = <<vecs[i][1][writers[i] + 1],
                                                vecs[i][2][writers[i] + 1]>>]
          /\ writes' = [writes EXCEPT ![slot] = @ + 1]
    /\ writers' = [writers EXCEPT ![i] = @ + 1]
    /\ UNCHANGED <<resorted, entry, keys, random_state, n_partitions, sorted, pc, failure, dfs,
                   hashes, workers, vecs, offsets, result>>

\* Mutant of ScatterSort: the array is returned as scattered, flagged sorted.
ScatterNoSort ==
    /\ pc = "scatter"
    /\ \A i \in DOMAIN writers : writers[i] = Len(vecs[i][1])
    /\ result' = [GroupsIdxFromIter(items) EXCEPT !.sorted = TRUE]
    /\ pc' = "done"
    /\ UNCHANGED <<resorted, entry, keys, random_state, n_partitions, sorted, failure, dfs,
                   hashes, workers, vecs, offsets, items, writes, writers>>

\* The join of the writers (a failed assert_eq aborts), set_len(cap) and the sort.
\* Sorting a slot that was never written is undefined.
ScatterSort ==
    /\ pc = "scatter"
    /\ \A i \in DOMAIN writers :
          Len(vecs[i][1]) = Len(vecs[i][2]) => writers[i] = Len(vecs[i][1])
    /\ IF \E i \in DOMAIN writers : Len(vecs[i][1]) # Len(vecs[i][2])
       THEN pc' = "aborted" /\ UNCHANGED result
       ELSE IF \E slot \in DOMAIN items : items[slot] = <<>>
       THEN pc' = "undefined" /\ UNCHANGED result
       ELSE /\ \E s \in sort_unstable_by_key(items) :
                  result' = [GroupsIdxFromIter(s) EXCEPT !.sorted = TRUE]
            /\ pc' = "done"
    /\ UNCHANGED <<resorted, entry, keys, random_state, n_partitions, sorted, failure, dfs,
                   hashes, workers, vecs, offsets, items, writes, writers>>

\* The join of the workers and finish_group_order_vecs without sorted.
FinishUnsorted ==
    /\ pc = "accumulate"
    /\ AllReturned
    /\ ~sorted
    /\ vecs' = Collected
    /\ result' = GroupsIdxFrom(Collected)
    /\ pc' = "done"
    /\ UNCHANGED <<resorted, entry, keys, random_state, n_partitions, sorted, failure, dfs,
                   hashes, workers, offsets, items, writes, writers>>

\* The groups of a GroupsIdx as (first, all) items.
group_items(g) == [i \in 1..Len(g.first) |-> <<g.first[i], g.all[i]>>]

\* The sort by representative index, applied to a result that was returned sorted.
Resort ==
    /\ pc = "done"
    /\ result.sorted
    /\ \E s \in sort_unstable_by_key(group_items(result)) :
          resorted' = [GroupsIdxFromIter(s) EXCEPT !.sorted = TRUE]
    /\ pc' = "resorted"
    /\ UNCHANGED <<entry, keys, random_state, n_partitions, sorted, failure, dfs,
                   hashes, workers, vecs, offsets, items, writes, writers, result>>

Next ==
    \/ Groupby
    \/ Num2Start
    \/ \E thread_no \in 0..(MaxParts - 1) : thread_no \in DOMAIN workers /\ Num2Worker(thread_no)
    \/ FlatSplit
    \/ FlatHash
    \/ \E thread_no \in 0..(MaxParts - 1) : thread_no \in DOMAIN workers /\ FlatWorker(thread_no)
    \/ FinishSingle
    \/ FinishScatter
    \/ \E i \in 1..MaxParts : ScatterWrite(i)
    \/ ScatterSort
    \/ FinishUnsorted
    \/ Resort

Spec == Init /\ [][Next]_vars

----------------------------------------------------------------------------
\* Properties

\* The rows of the input, numbered 0..NumRows - 1.
NumRows ==
    IF entry = "groupby_threaded_multiple_keys_flat" THEN height(keys) ELSE SumLens(keys)

\* The call returned a grouping result.
Returned_Result == pc \in {"done", "resorted"}

\* The call met the precondition of the threaded paths.
ValidPartitions == entry \in Threaded => is_power_of_two(n_partitions)

\* The places (group, position) at which row index idx occurs in the result.
Occurrences(idx) ==
    {gp \in UNION {{<<g, j>> : j \in DOMAIN result.all[g]} : g \in DOMAIN result.all} :
        result.all[gp[1]][gp[2]] = idx}

\* Rows a and b are members of one group of the result.
SameGroup(a, b) ==
    \E g \in DOMAIN result.all : a \in Range(result.all[g]) /\ b \in Range(result.all[g])

\* The single key of row idx, whatever the chunking.
KeyAt(idx) == Flatten(keys)[idx + 1]

\* The hash of row idx, whatever the split.
HashAt(idx) == Flatten(hashes)[idx + 1]

\* Brute-force reference: the key columns agree at rows a and b.
RowsEqual(a, b) == \A c \in DOMAIN keys : keys[c][a + 1] = keys[c][b + 1]

\* C1 (partition property): when a call with a power-of-two n_partitions has
\* returned, every row index 0..N-1 occurs at exactly one place of exactly one
\* member list, every member is such an index, and there is one member list
\* per representative.
C1_Partition ==
    (Returned_Result /\ ValidPartitions) =>
        /\ Len(result.first) = Len(result.all)
        /\ \A idx \in 0..(NumRows - 1) : Cardinality(Occurrences(idx)) = 1
        /\ \A g \in DOMAIN result.all : Range(result.all[g]) \subseteq 0..(NumRows - 1)

\* C1 witness: groupby_threaded_num2 has returned for three rows handed over
\* as two non-empty chunks, grouped by two workers into more than one group.
C1_Witness ==
    /\ pc = "done"
    /\ entry = "groupby_threaded_num2"
    /\ n_partitions = 2
    /\ Len(keys) = 2
    /\ Len(keys[1]) > 0
    /\ Len(keys[2]) > 0
    /\ NumRows = 3
    /\ Len(result.first) = 2

\* C2 (multi-key equivalence): in the result of
\* groupby_threaded_multiple_keys_flat two rows share a group exactly when
\* every key column agrees on them, whatever their hashes.
C2_MultiKeyEquivalence ==
    (Returned_Result /\ entry = "groupby_threaded_multiple_keys_flat"
        /\ is_power_of_two(n_partitions)) =>
        \A a \in 0..(NumRows - 1), b \in 0..(NumRows - 1) :
            SameGroup(a, b) <=> RowsEqual(a, b)

\* C2 witness: a returned multi-key call in which two rows with one hash differ
\* in a column and sit in different groups, while a third row equals the first
\* and shares its group.
C2_Witness ==
    /\ pc = "done"
    /\ entry = "groupby_threaded_multiple_keys_flat"
    /\ is_power_of_two(n_partitions)
    /\ \E a \in 0..(NumRows - 1), b \in 0..(NumRows - 1), c \in 0..(NumRows - 1) :
          /\ HashAt(a) = HashAt(b)
          /\ ~RowsEqual(a, b)
          /\ ~SameGroup(a, b)
          /\ a # c
          /\ RowsEqual(a, c)
          /\ SameGroup(a, c)

\* C3 (single-key grouping): in the result of groupby two rows share a group
\* exactly when their keys are equal, so a duplicate-free input gives singletons.
C3_SingleKeyGrouping ==
    (Returned_Result /\ entry = "groupby") =>
        /\ \A a \in 0..(NumRows - 1), b \in 0..(NumRows - 1) :
              SameGroup(a, b) <=> KeyAt(a) = KeyAt(b)
        /\ (\A a \in 0..(NumRows - 1), b \in 0..(NumRows - 1) :
                KeyAt(a) = KeyAt(b) => a = b)
             => \A g \in DOMAIN result.all : Len(result.all[g]) = 1

\* C3 witness: groupby has returned a group of two rows next to another group.
C3_Witness ==
    /\ pc = "done"
    /\ entry = "groupby"
    /\ Len(result.all) = 2
    /\ \E g \in DOMAIN result.all : Len(result.all[g]) = 2

\* C4 (representative correctness): every group of a returned result has
\* members, its representative is the first of them and the least of them.
C4_Representative ==
    (Returned_Result /\ ValidPartitions) =>
        /\ Len(result.first) = Len(result.all)
        /\ \A g \in DOMAIN result.all :
              /\ result.all[g] # <<>>
              /\ result.first[g] = result.all[g][1]
              /\ \A j \in DOMAIN result.all[g] : result.first[g] <= result.all[g][j]

\* C4 witness: an unsorted multi-key call of two workers has returned a group
\* of several rows whose representative is not row 0.
C4_Witness ==
    /\ pc = "done"
    /\ entry = "groupby_threaded_multiple_keys_flat"
    /\ n_partitions = 2
    /\ ~sorted
    /\ \E g \in DOMAIN result.all : Len(result.all[g]) > 1 /\ result.first[g] > 0

\* C5 (sorted-mode ordering): a result returned for sorted = true is flagged
\* sorted and its representatives increase strictly from group to group.
C5_SortedOrdering ==
    (Returned_Result /\ sorted /\ ValidPartitions) =>
        /\ result.sorted
        /\ \A g \in DOMAIN result.first, h \in DOMAIN result.first :
              g < h => result.first[g] < result.first[h]

\* C5 witness: a sorted call of several workers has returned although the
\* scattered array was out of representative order before the sort.
C5_Witness ==
    /\ pc = "done"
    /\ sorted
    /\ n_partitions > 1
    /\ \E i \in DOMAIN items, j \in DOMAIN items : i < j /\ items[i][1] > items[j][1]

\* The groups of a GroupsIdx as a set of (representative, member list).
GroupSet(g) == Range(group_items(g))

\* Every result the sequential groupby may return for key iterator a.
SequentialResults(a, is_sorted) ==
    LET hash_tbl == groupby_table(a)
        orders == IterOrders({hash_tbl[k] : k \in DOMAIN hash_tbl})
    IN IF is_sorted
       THEN {[GroupsIdxFromIter(s) EXCEPT !.sorted = TRUE] :
                s \in UNION {sort_unstable_by_key(o) : o \in orders}}
       ELSE {GroupsIdxFromIter(o) : o \in orders}

\* C6 (threading invariance): what groupby_threaded_num2 returns for a
\* power-of-two n_partitions has the groups of every result of the sequential
\* groupby on the same keys, each group once; with sorted = true the results
\* are the same sequences.
C6_ThreadingInvariance ==
    (Returned_Result /\ entry = "groupby_threaded_num2") =>
        \A seq \in SequentialResults(Flatten(keys), sorted) :
            /\ GroupSet(result) = GroupSet(seq)
            /\ Len(result.first) = Len(seq.first)
            /\ sorted => result = seq

\* C6 witness: groupby_threaded_num2 has returned unsorted from four workers
\* with groups in an order no sort by representative would give.
C6_Witness ==
    /\ pc = "done"
    /\ entry = "groupby_threaded_num2"
    /\ n_partitions = 4
    /\ ~sorted
    /\ \E g \in DOMAIN result.first, h \in DOMAIN result.first :
          g < h /\ result.first[g] > result.first[h]

\* C7 (power-of-two precondition): a threaded call whose n_partitions is not
\* a power of two only ever aborts from its start: the table is never split,
\* no row is hashed, no worker is started and nothing is returned.
C7_AbortBeforeWork ==
    (entry \in Threaded /\ ~is_power_of_two(n_partitions)) =>
        /\ pc \in {"start", "aborted"}
        /\ dfs = <<>>
        /\ hashes = <<>>
        /\ workers = <<>>
        /\ result = <<>>

\* C8 (recoverable input-shape errors): in
\* groupby_threaded_multiple_keys_flat a failure reported by the row splitter
\* or by the row hasher ends the call in an Err, with no worker started and
\* no result, and never in an abort.
C8_FailureReturnedAsErr ==
    (entry = "groupby_threaded_multiple_keys_flat" /\ failure # "none") =>
        /\ pc = "err"
        /\ workers = <<>>
        /\ result = <<>>

\* C9 (empty input): a call on zero rows with a power-of-two n_partitions
\* never aborts or fails, stops only once it has returned, and returns a
\* result without groups.
C9_EmptyInput ==
    ((\A c \in DOMAIN keys : keys[c] = <<>>) /\ ValidPartitions) =>
        /\ pc \notin {"aborted", "err", "undefined"}
        /\ Returned_Result => (result.first = <<>> /\ result.all = <<>>)
        /\ Returned_Result \/ ENABLED Next

\* C9 witness: a sorted multi-key call of two workers on zero rows has
\* returned through the scatter into an array of capacity zero.
C9_Witness ==
    /\ pc = "done"
    /\ NumRows = 0
    /\ entry = "groupby_threaded_multiple_keys_flat"
    /\ n_partitions = 2
    /\ sorted
    /\ Len(vecs) = 2
    /\ items = <<>>
    /\ result.first = <<>>

\* C10 (idempotence of sorted output): sorting a result that was returned
\* sorted by representative index once more gives that very result.
C10_SortIdempotent == pc = "resorted" => resorted = result

\* C10 witness: a result of several groups, returned sorted through the
\* one-worker shortcut, has been sorted again.
C10_Witness ==
    /\ pc = "resorted"
    /\ entry \in Threaded
    /\ n_partitions = 1
    /\ Len(result.first) > 1
    /\ \E g \in DOMAIN result.all : Len(result.all[g]) > 1

\* A list of row indices in strictly increasing order.
StrictlyIncreasing(s) == \A i \in DOMAIN s, j \in DOMAIN s : i < j => s[i] < s[j]

\* C11 (single-worker shortcut): every worker's first_vals is strictly
\* increasing at every step of its accumulation, and a sorted call of one
\* worker returns that worker's lists as they are, flagged sorted, without
\* scattering or sorting them.
C11_SingleWorkerShortcut ==
    /\ \A thread_no \in DOMAIN workers : StrictlyIncreasing(workers[thread_no].first_vals)
    /\ (Returned_Result /\ entry \in Threaded /\ sorted /\ Len(vecs) = 1) =>
          /\ result = GroupsIdxNew(vecs[1][1], vecs[1][2], TRUE)
          /\ items = <<>>
          /\ StrictlyIncreasing(result.first)

\* C11 witness: a sorted call of one worker has returned several groups
\* through the shortcut, one of them with several rows.
C11_Witness ==
    /\ pc = "done"
    /\ entry \in Threaded
    /\ sorted
    /\ n_partitions = 1
    /\ Len(vecs) = 1
    /\ items = <<>>
    /\ Len(result.first) > 1
    /\ \E g \in DOMAIN result.all : Len(result.all[g]) > 1

\* finish_group_order_vecs is in or past its scatter.
Scattering ==
    entry \in Threaded /\ sorted /\ Len(vecs) # 1 /\ pc \in {"scatter", "done", "resorted"}

\* The slots of items that scatter writer i owns.
SlotRange(i) == (offsets[i] + 1)..(offsets[i] + Len(vecs[i][1]))

\* C12 (scatter disjointness): the writers' slot ranges are pairwise disjoint
\* and cover the array; at every step of every interleaving a slot has been
\* written at most once, exactly when its owner has reached it, and holds the
\* owner's item; when the sort has run every slot had been written once.
C12_ScatterDisjoint ==
    Scattering =>
        /\ Len(items) = SumLens([i \in DOMAIN vecs |-> vecs[i][1]])
        /\ \A i \in DOMAIN vecs, j \in DOMAIN vecs :
              i # j => SlotRange(i) \cap SlotRange(j) = {}
        /\ UNION {SlotRange(i) : i \in DOMAIN vecs} = DOMAIN items
        /\ \A i \in DOMAIN vecs : \A slot \in SlotRange(i) :
              LET k == slot - offsets[i]
              IN IF k <= writers[i]
                 THEN writes[slot] = 1 /\ items[slot] = <<vecs[i][1][k], vecs[i][2][k]>>
                 ELSE writes[slot] = 0 /\ items[slot] = <<>>
        /\ pc # "scatter" => \A slot \in DOMAIN items : writes[slot] = 1

\* C12 witness: in a scatter of two writers that both own slots, the second
\* writer has written while the first has not yet.
C12_Witness ==
    /\ pc = "scatter"
    /\ Len(vecs) = 2
    /\ Len(vecs[1][1]) > 0
    /\ writers[1] = 0
    /\ writers[2] > 0
    /\ \E slot \in DOMAIN items : writes[slot] = 1

\* The workers of a threaded call with a power-of-two n_partitions exist.
Accumulating ==
    /\ entry \in Threaded
    /\ is_power_of_two(n_partitions)
    /\ pc \in {"accumulate", "scatter", "done", "resorted"}

\* The value ownership of row idx is decided on.
OwnerHash(idx) ==
    IF entry = "groupby_threaded_num2" THEN as_u64(KeyAt(idx)) ELSE HashAt(idx)

\* Rows a and b have equal keys.
KeysEqual(a, b) ==
    IF entry = "groupby_threaded_num2" THEN KeyAt(a) = KeyAt(b) ELSE RowsEqual(a, b)

\* The rows worker thread_no has put into its member lists.
Claimed(thread_no) == UNION {Range(l) : l \in Range(workers[thread_no].all_vals)}

\* C13 (partition ownership): with a power-of-two n_partitions exactly one
\* worker number claims a row, the one equal to the low bits of the value
\* ownership is decided on; rows with equal keys have one owner; a worker has
\* claimed exactly the rows it owns among those it has scanned; and no key
\* has groups in two workers.
C13_PartitionOwnership ==
    Accumulating =>
        LET Rows == 0..(NumRows - 1)
            owner == [idx \in Rows |-> OwnerHash(idx)]
            same == {ab \in Rows \X Rows : KeysEqual(ab[1], ab[2])}
        IN /\ \A idx \in Rows :
                 {t \in 0..(n_partitions - 1) : this_partition(owner[idx], t, n_partitions)}
                     = {owner[idx] % n_partitions}
           /\ \A ab \in same : owner[ab[1]] % n_partitions = owner[ab[2]] % n_partitions
           /\ \A t \in DOMAIN workers :
                 Claimed(t) = {idx \in 0..(workers[t].offset + workers[t].cnt - 1) :
                                  owner[idx] % n_partitions = t}
           /\ \A t \in DOMAIN workers, u \in DOMAIN workers :
                 t # u => \A a \in Range(workers[t].first_vals),
                             b \in Range(workers[u].first_vals) : <<a, b>> \notin same

\* C13 witness: a multi-key call of four workers has returned with groups in
\* two workers at least, one group holding two equal rows.
C13_Witness ==
    /\ pc = "done"
    /\ entry = "groupby_threaded_multiple_keys_flat"
    /\ n_partitions = 4
    /\ \E t \in DOMAIN workers, u \in DOMAIN workers :
          /\ t # u
          /\ workers[t].first_vals # <<>>
          /\ workers[u].first_vals # <<>>
          /\ \E l \in Range(workers[t].all_vals) : Len(l) > 1

\* Worker thread_no run alone over the first k rows of the stream.
RECURSIVE Alone(_, _)
Alone(thread_no, k) ==
    IF k = 0 THEN next_chunk(Stream, NewWorker)
    ELSE LET w == Alone(thread_no, k - 1)
             x == Stream[w.ci][w.cnt + 1]
         IN next_chunk(Stream,
                IF entry = "groupby_threaded_num2"
                THEN num2_row(w, thread_no, n_partitions, x)
                ELSE flat_row(w, thread_no, n_partitions, x, keys))

\* What the workers run one after the other hand to finish_group_order_vecs.
AloneVecs ==
    [i \in 1..n_partitions |->
        <<Alone(i - 1, NumRows).first_vals, Alone(i - 1, NumRows).all_vals>>]

\* Every result finish_group_order_vecs may return for vs.
FinishResults(vs, is_sorted) ==
    IF ~is_sorted THEN {GroupsIdxFrom(vs)}
    ELSE IF Len(vs) = 1 THEN {GroupsIdxNew(vs[1][1], vs[1][2], TRUE)}
    ELSE {[GroupsIdxFromIter(s) EXCEPT !.sorted = TRUE] :
             s \in sort_unstable_by_key(
                      Flatten([i \in 1..Len(vs) |->
                                  [g \in 1..Len(vs[i][1]) |-> <<vs[i][1][g], vs[i][2][g]>>]]))}

\* C14 (worker isolation and determinism): at every step of every
\* interleaving a worker's table and lists are those it would have had
\* running alone up to its own position, and the result returned is the one
\* result of the workers run one after the other: a function of the keys,
\* n_partitions and the sorted flag.
C14_IsolationDeterminism ==
    Accumulating =>
        /\ \A t \in DOMAIN workers : workers[t] = Alone(t, workers[t].offset + workers[t].cnt)
        /\ Returned_Result => FinishResults(AloneVecs, sorted) = {result}

\* C14 witness: two workers of groupby_threaded_num2 hold groups while one of
\* them is ahead of the other in the input.
C14_Witness ==
    /\ pc = "accumulate"
    /\ entry = "groupby_threaded_num2"
    /\ \E t \in DOMAIN workers, u \in DOMAIN workers :
          /\ workers[t].first_vals # <<>>
          /\ workers[u].first_vals # <<>>
          /\ workers[t].offset + workers[t].cnt < workers[u].offset + workers[u].cnt
          /\ ~Returned(keys, workers[u])

\* C15 (unchecked-access invariant): in every state of a threaded call every
\* worker's first-indices list and member-lists list have the same length,
\* that length is the number of entries of its hash table, and every offset
\* stored in the table is below it; the lists handed to the scatter have
\* equal lengths, so its assert_eq never aborts the call.
C15_UncheckedAccess ==
    /\ \A t \in DOMAIN workers :
          LET w == workers[t]
          IN /\ Len(w.first_vals) = Len(w.all_vals)
             /\ Len(w.first_vals) = Cardinality(DOMAIN w.hash_tbl)
             /\ \A x \in DOMAIN w.hash_tbl : w.hash_tbl[x] \in 0..(Len(w.all_vals) - 1)
    /\ \A i \in DOMAIN vecs : Len(vecs[i][1]) = Len(vecs[i][2])
    /\ pc = "aborted" => vecs = <<>>
    /\ pc # "undefined"

\* C15 witness: a worker that took the Occupied branch on its second group
\* has returned, and its scatter writer has written both of its groups.
C15_Witness ==
    /\ pc = "scatter"
    /\ \E t \in DOMAIN workers :
          /\ Len(workers[t].first_vals) = 2
          /\ Len(workers[t].all_vals[2]) = 2
          /\ writers[t + 1] = 2

\* The groups (first index, member list) the workers handed to the finisher.
VecGroups ==
    Flatten([i \in 1..Len(vecs) |->
                [g \in 1..Len(vecs[i][1]) |-> <<vecs[i][1][g], vecs[i][2][g]>>]])

\* C16 (within-group order): in the result of every entry point every member
\* list is in strictly increasing row-index order, as is every member list of
\* every worker while it accumulates; the result of a threaded call holds
\* exactly the groups the workers produced, each with its member list as the
\* worker left it, whatever order the finisher gives the groups.
C16_WithinGroupOrder ==
    /\ \A t \in DOMAIN workers : \A g \in DOMAIN workers[t].all_vals :
          StrictlyIncreasing(workers[t].all_vals[g])
    /\ Returned_Result =>
          /\ \A g \in DOMAIN result.all : StrictlyIncreasing(result.all[g])
          /\ entry \in Threaded =>
                /\ Len(result.first) = Len(VecGroups)
                /\ Len(result.all) = Len(VecGroups)
                /\ {<<result.first[g], result.all[g]>> : g \in DOMAIN result.first}
                      = Range(VecGroups)

\* C16 witness: a threaded sorted call over several workers returned a group
\* of two rows, and the sort moved groups out of the order of the workers.
C16_Witness ==
    /\ pc = "done"
    /\ entry \in Threaded
    /\ sorted
    /\ Len(vecs) > 1
    /\ \E g \in DOMAIN result.all : Len(result.all[g]) = 2
    /\ result.first # [g \in DOMAIN VecGroups |-> VecGroups[g][1]]

----------------------------------------------------------------------------
\* The population routines, called row after row on one table

\* Well-formed key DataFrames, their row hashes, and an empty table.
PopInit ==
    /\ entry \in {"populate_multiple_key_hashmap", "populate_multiple_key_hashmap2"}
    /\ keys \in {df \in DataFrames : Compatible(df)}
    /\ random_state \in 0..MaxSeed
    /\ hashes = df_rows_to_hashes(<<keys>>, random_state)
    /\ workers = [thread_no \in {0} |-> NewWorker]
    /\ pc = "populate"
    /\ sorted = FALSE
    /\ n_partitions = 1
    /\ failure = "none"
    /\ dfs = <<>>
    /\ vecs = <<>>
    /\ offsets = <<>>
    /\ items = <<>>
    /\ writes = <<>>
    /\ writers = <<>>
    /\ result = <<>>
    /\ resorted = <<>>

\* One call of populate_multiple_key_hashmap, for the next row and its hash.
PopulateMultipleKeyHashmap ==
    /\ pc = "populate"
    /\ entry = "populate_multiple_key_hashmap"
    /\ workers[0].cnt < height(keys)
    /\ LET w == workers[0]
           idx == w.cnt
       IN workers' = [workers EXCEPT ![0] =
              populate_multiple_key_hashmap([w EXCEPT !.cnt = @ + 1], idx,
                                            hashes[1][idx + 1], keys)]
    /\ UNCHANGED <<resorted, entry, keys, random_state, n_partitions, sorted, pc, failure, dfs,
                   hashes, vecs, offsets, items, writes, writers, result>>

\* One call of populate_multiple_key_hashmap2, for the next row and its hash.
PopulateMultipleKeyHashmap2 ==
    /\ pc = "populate"
    /\ entry = "populate_multiple_key_hashmap2"
    /\ workers[0].cnt < height(keys)
    /\ LET w == workers[0]
           idx == w.cnt
       IN workers' = [workers EXCEPT ![0] =
              populate_multiple_key_hashmap2([w EXCEPT !.cnt = @ + 1], idx,
                                             hashes[1][idx + 1], keys)]
    /\ UNCHANGED <<resorted, entry, keys, random_state, n_partitions, sorted, pc, failure, dfs,
                   hashes, vecs, offsets, items, writes, writers, result>>

PopNext ==
    \/ PopulateMultipleKeyHashmap
    \/ PopulateMultipleKeyHashmap2

PopSpec == PopInit /\ [][PopNext]_vars

\* The stored keys of table tbl that have hash h and a row equal to row idx.
Matching(tbl, idx, h) == {e \in DOMAIN tbl : e.hash = h /\ RowsEqual(e.idx, idx)}

\* The effect on the table and the two lists of one call with (idx, h): the
\* vacant producer ran once and the occupied updater did not, or the reverse.
PopulationStep(w, w2, idx, h) ==
    IF Matching(w.hash_tbl, idx, h) = {}
    THEN /\ IdxHash(idx, h) \notin DOMAIN w.hash_tbl
         /\ DOMAIN w2.hash_tbl = DOMAIN w.hash_tbl \cup {IdxHash(idx, h)}
         /\ \A e \in DOMAIN w.hash_tbl : w2.hash_tbl[e] = w.hash_tbl[e]
         /\ w2.hash_tbl[IdxHash(idx, h)] = Len(w.first_vals)
         /\ w2.first_vals = Append(w.first_vals, idx)
         /\ w2.all_vals = Append(w.all_vals, <<idx>>)
    ELSE /\ Cardinality(Matching(w.hash_tbl, idx, h)) = 1
         /\ w2.hash_tbl = w.hash_tbl
         /\ w2.first_vals = w.first_vals
         /\ \E e \in Matching(w.hash_tbl, idx, h) :
               /\ e.idx < idx
               /\ w2.all_vals = [w.all_vals EXCEPT ![w.hash_tbl[e] + 1] = Append(@, idx)]
               /\ w2.all_vals[w.hash_tbl[e] + 1][1] = e.idx

\* C17 (population routine): every call of populate_multiple_key_hashmap or
\* populate_multiple_key_hashmap2 with (idx, original_h) either finds no
\* stored entry of that hash with an equal row, and then adds exactly the key
\* (idx, original_h) with the value of one run of the vacant producer and
\* changes nothing else, or finds one, and then runs the occupied updater once
\* on that entry's value and leaves the keys, and so each key's first row, as
\* they were.
C17_PopulationRoutine ==
    [][PopulationStep(workers[0], workers'[0], workers[0].cnt, hashes[1][workers[0].cnt + 1])]_vars

\* C17 witness: the table holds two keys of one hash whose rows differ, and the
\* occupied updater has added a row to one of the groups.
C17_Witness ==
    /\ pc = "populate"
    /\ \E a \in DOMAIN workers[0].hash_tbl, b \in DOMAIN workers[0].hash_tbl :
          /\ a.hash = b.hash
          /\ a.idx # b.idx
    /\ \E g \in DOMAIN workers[0].all_vals : Len(workers[0].all_vals[g]) = 2

----------------------------------------------------------------------------
\* A grouping call whose pool keeps scheduling whatever can run

FairSpec == Init /\ [][Next]_vars /\ WF_vars(Next)

\* The finisher has been entered on the workers' results, or has returned.
FinisherStarted == entry \in Threaded /\ pc \in {"scatter", "done", "resorted"}

\* The workers are all there, are all past their last row, and what the
\* finisher holds is what they returned.
WorkersJoined ==
    /\ DOMAIN workers = 0..(n_partitions - 1)
    /\ \A thread_no \in DOMAIN workers :
          workers[thread_no].offset = NumRows /\ workers[thread_no].ci = Len(Stream) + 1
    /\ Len(vecs) = n_partitions
    /\ \A thread_no \in DOMAIN workers :
          vecs[thread_no + 1] = <<workers[thread_no].first_vals, workers[thread_no].all_vals>>

\* Every scatter writer has written all the groups of its worker.
WritersJoined ==
    /\ DOMAIN writers = 1..Len(vecs)
    /\ \A i \in DOMAIN writers : writers[i] = Len(vecs[i][1])

\* C18 (join before finish, termination): in a threaded call the finisher
\* is entered only when each of the n_partitions workers has scanned its
\* whole input and returned, the sort runs only when every scatter writer has
\* written all of its groups, and under fair scheduling a call with a
\* power-of-two n_partitions eventually returns a result, unless a collaborator
\* rejected ill-formed key columns, which well-formed ones never meet.
C18_JoinAndTermination ==
    /\ [](FinisherStarted => WorkersJoined)
    /\ []((FinisherStarted /\ sorted /\ Len(vecs) # 1 /\ pc # "scatter") => WritersJoined)
    /\ [](Compatible(keys) => failure = "none")
    /\ (entry \in Threaded /\ is_power_of_two(n_partitions))
          => <>(Returned_Result \/ failure # "none")

\* C18 witness: four workers were joined, their writers scattered three
\* groups between them, and the sorted call has returned.
C18_Witness ==
    /\ pc = "done"
    /\ entry \in Threaded
    /\ sorted
    /\ n_partitions = 4
    /\ WorkersJoined
    /\ WritersJoined
    /\ Len(result.first) = 3

====
